---- MODULE Spec2Model ----
(***************************************************************************)
(* Model of scripts/estimate_damage_python.py: the estimation pipeline     *)
(* main() = fetch_damage_type_code -> resolve_price_book_id ->             *)
(* pick_severity_band -> fetch_cost_rows -> estimate_costs -> totals and   *)
(* report, run against a read-only SQL data store.                         *)
(*                                                                         *)
(* Numbers.  Sizes, conversion factors, range bounds and costs are small   *)
(* naturals.  The two places where the code divides by 2.0 (the band       *)
(* midpoint and the min/max mean) are carried in HALVES: a band score and  *)
(* every estimate and total is stored as twice its value, so that          *)
(* (a + b) / 2.0 is exactly the integer a + b.  Halves(x) converts a whole *)
(* amount to halves.  Floating-point rounding is outside this model.       *)
(*                                                                         *)
(* Optional values (Python None, SQL NULL) are sequences of length at most *)
(* one: NULL is <<>> and Some(v) is <<v>>.                                 *)
(***************************************************************************)
EXTENDS Integers, Sequences, FiniteSets, TLC

\* ------------------------------------------------------------------ bounds
MaxRange == 2
MaxSize == 3
MaxCost == 1
MaxBands == 2
WideRange == 6

\* --------------------------------------------------------- optional values
NULL == <<>>
Some(v) == <<v>>
IsNull(o) == o = <<>>
Val(o) == o[1]
Opt(S) == {NULL} \cup {Some(v) : v \in S}

\* Python truthiness of an optional string: None and "" are falsy.
TruthyNotNone(o) == o # NULL

Truthy(o) == o # NULL /\ Val(o) # ""

Abs(x) == IF x < 0 THEN -x ELSE x
Halves(x) == 2 * x

RECURSIVE SumSeq(_)
SumSeq(s) == IF s = <<>> THEN 0 ELSE Head(s) + SumSeq(Tail(s))

SetMax(S) == CHOOSE m \in S : \A x \in S : x <= m

\* ------------------------------------------------------ sample data store
Languages == {"nl", "en"}
Codes == {"WATER", "BRAND", "FIRE"}

\* Collation order of the activity codes that occur in the sample store.
ActivityCodeOrder ==
  <<"A_CLEAN", "A_DRY", "A_REBUILD", "B_DROOG", "B_HERBOUW", "B_SCHOON">>
CodeRank(c) == CHOOSE i \in 1..Len(ActivityCodeOrder) : ActivityCodeOrder[i] = c

SampleDamageType ==
  { [damage_type_id |-> 1, code_en |-> "WATER", code_nl |-> "WATER",
     name_en |-> "Water damage", name_nl |-> "Waterschade"],
    [damage_type_id |-> 2, code_en |-> "FIRE", code_nl |-> "BRAND",
     name_en |-> "Fire damage", name_nl |-> "Brandschade"] }

SampleKeyword ==
  { [damage_type_id |-> 1, keyword_text |-> "leak"],
    [damage_type_id |-> 1, keyword_text |-> "pipe"] }

SampleUnit ==
  { [unit_id |-> 1, symbol |-> "m2", conversion_to_base |-> 1, base_symbol |-> NULL],
    [unit_id |-> 2, symbol |-> "tile", conversion_to_base |-> 2, base_symbol |-> Some("m2")] }

UnitSymbols == {"m2", "tile", "ft"}

SampleBands ==
  << [severity_band_id |-> 3, damage_type_id |-> 2, band_label |-> "any",
      range_min |-> 0, range_max |-> 4, unit_id |-> 2],
     [severity_band_id |-> 1, damage_type_id |-> 1, band_label |-> "small",
      range_min |-> 0, range_max |-> 2, unit_id |-> 1],
     [severity_band_id |-> 2, damage_type_id |-> 1, band_label |-> "large",
      range_min |-> 2, range_max |-> 4, unit_id |-> 1] >>

SamplePriceBook ==
  { [price_book_id |-> 1, year_label |-> 2021],
    [price_book_id |-> 2, year_label |-> 2023] }

SampleActivity ==
  { [activity_id |-> 1, code_en |-> "A_DRY", code_nl |-> "B_DROOG",
     name_en |-> "Drying", name_nl |-> "Drogen"],
    [activity_id |-> 2, code_en |-> "A_CLEAN", code_nl |-> "B_SCHOON",
     name_en |-> "Cleaning", name_nl |-> "Schoonmaken"],
    [activity_id |-> 3, code_en |-> "A_REBUILD", code_nl |-> "B_HERBOUW",
     name_en |-> "Rebuilding", name_nl |-> "Herbouw"] }

SampleDamageTypeActivity ==
  { [damage_type_id |-> 1, activity_id |-> 1, sequence_order |-> 1, is_required |-> 1],
    [damage_type_id |-> 1, activity_id |-> 2, sequence_order |-> 1, is_required |-> 0],
    [damage_type_id |-> 2, activity_id |-> 3, sequence_order |-> 1, is_required |-> 1] }

CostRow(id, act, pb, band, lu, lmin, lmax, mu, mmin, mmax) ==
  [activity_cost_id |-> id, activity_id |-> act, price_book_id |-> pb,
   severity_band_id |-> band,
   labor_unit_cost |-> lu, labor_cost_min |-> lmin, labor_cost_max |-> lmax,
   material_unit_cost |-> mu, material_cost_min |-> mmin, material_cost_max |-> mmax,
   labor_unit_id |-> Some(1), material_unit_id |-> NULL]

SampleActivityCost ==
  { CostRow(1, 1, 2, NULL, Some(1), NULL, NULL, NULL, Some(0), Some(1)),
    CostRow(2, 2, 2, Some(1), NULL, Some(1), NULL, NULL, NULL, Some(1)) }

SampleStore ==
  [DamageType |-> SampleDamageType, DamageTypeKeyword |-> SampleKeyword,
   Unit |-> SampleUnit, SeverityBand |-> SampleBands,
   PriceBookVersion |-> SamplePriceBook, Activity |-> SampleActivity,
   DamageTypeActivity |-> SampleDamageTypeActivity,
   ActivityCost |-> SampleActivityCost]

SampleArgs ==
  [language |-> "en", damage_code |-> Some("WATER"), description |-> NULL,
   size |-> 1, unit |-> "m2", price_year |-> NULL]

SampleEnv == [openai_installed |-> TRUE, api_key |-> TRUE]

VARIABLES
  db,               \* the data store (read-only)
  args,             \* parse_args(): the command line
  env,              \* openai import succeeded / OPENAI_API_KEY set
  pc,               \* position in main()
  damage_type_id, code_used,
  price_book_id, price_year,
  severity_band_id, band_info, size_in_base,
  rows, estimates,
  total_labor, total_material,
  out,              \* what main() has printed, in order
  error,            \* the exception main() ended with, or NULL
  trace,            \* the stage functions called so far, in order
  choices,          \* the candidates put in the classifier prompt
  code_guess,       \* the first token of the classifier's reply
  classifier_calls, \* number of chat.completions.create calls
  conn_open

vars == <<db, args, env, pc, damage_type_id, code_used, price_book_id, price_year,
          severity_band_id, band_info, size_in_base, rows, estimates,
          total_labor, total_material, out, error, trace, choices,
          code_guess, classifier_calls, conn_open>>

storeVars == <<db, args, env>>
resolveVars == <<damage_type_id, code_used, choices, code_guess, classifier_calls>>
priceVars == <<price_book_id, price_year>>
bandVars == <<severity_band_id, band_info, size_in_base>>
costVars == <<rows, estimates>>
reportVars == <<total_labor, total_material, out>>

StageOrder ==
  << "fetch_damage_type_code", "resolve_price_book_id", "pick_severity_band",
     "fetch_cost_rows", "estimate_costs" >>

\* An exception leaves main() through the finally block: nothing is printed
\* after it and the connection is closed.
Raise(type, msg) ==
  /\ pc' = "failed"
  /\ error' = Some([type |-> type, msg |-> msg])
  /\ conn_open' = FALSE

Called(stage) == trace' = Append(trace, stage)

\* ------------------------------------------------ fetch_damage_type_code
CodeIn(d, language) == IF language = "en" THEN d.code_en ELSE d.code_nl
NameIn(d, language) == IF language = "en" THEN d.name_en ELSE d.name_nl

\* SELECT damage_type_id, CASE ... AS code_used FROM DamageType
\* WHERE code_en = ? OR code_nl = ?
LookupCodeEnOnly(store, language, code) ==
  { [damage_type_id |-> d.damage_type_id, code_used |-> CodeIn(d, language)] :
      d \in {e \in store.DamageType : e.code_en = code} }

LookupCode(store, language, code) ==
  { [damage_type_id |-> d.damage_type_id, code_used |-> CodeIn(d, language)] :
      d \in {e \in store.DamageType : e.code_en = code \/ e.code_nl = code} }

\* SELECT TOP (200) ... ORDER BY dt.damage_type_id
CandidateLimit == 200

Candidates(store) ==
  { d \in store.DamageType :
      Cardinality({e \in store.DamageType : e.damage_type_id < d.damage_type_id})
        < CandidateLimit }

Keywords(store, d) ==
  { k.keyword_text : k \in {x \in store.DamageTypeKeyword :
                              x.damage_type_id = d.damage_type_id} }

Choices(store, language) ==
  { [id |-> d.damage_type_id, code |-> CodeIn(d, language),
     name |-> NameIn(d, language), keywords |-> Keywords(store, d)] :
      d \in Candidates(store) }

\* The classifier's reply, as its whitespace-separated tokens: the code reads
\* content.strip().split()[0].
ClassifierReplies ==
  {<<>>} \cup {<<c>> : c \in Codes \cup {"NONE"}} \cup {<<"WATER", "damage">>}

fetch_damage_type_code ==
  /\ pc = "resolve"
  /\ Called("fetch_damage_type_code")
  /\ UNCHANGED <<storeVars, priceVars, bandVars, costVars, reportVars>>
  /\ IF Truthy(args.damage_code)
       THEN LET found == LookupCode(db, args.language, Val(args.damage_code)) IN
            /\ UNCHANGED <<choices, code_guess, classifier_calls>>
            /\ IF found = {}
                 THEN /\ Raise("ValueError", "Damage type code not found")
                      /\ UNCHANGED <<damage_type_id, code_used>>
                 ELSE \E row \in found :
                        /\ damage_type_id' = Some(row.damage_type_id)
                        /\ code_used' = Some(row.code_used)
                        /\ pc' = "price_book"
                        /\ UNCHANGED <<error, conn_open>>
     ELSE IF ~Truthy(args.description)
       THEN /\ Raise("ValueError", "Either --damage-code or --description must be provided.")
            /\ UNCHANGED resolveVars
     ELSE IF ~env.openai_installed
       THEN /\ Raise("ImportError", "openai package not installed")
            /\ UNCHANGED resolveVars
     ELSE IF ~env.api_key
       THEN /\ Raise("EnvironmentError", "OPENAI_API_KEY is required")
            /\ UNCHANGED resolveVars
     ELSE \E reply \in ClassifierReplies :
            /\ choices' = Choices(db, args.language)
            /\ classifier_calls' = classifier_calls + 1
            /\ IF reply = <<>>
                 THEN /\ Raise("IndexError", "list index out of range")
                      /\ UNCHANGED <<damage_type_id, code_used, code_guess>>
                 ELSE LET found == LookupCode(db, args.language, Head(reply)) IN
                      /\ code_guess' = Some(Head(reply))
                      /\ IF found = {}
                           THEN /\ Raise("ValueError", "Model returned an unknown code")
                                /\ UNCHANGED <<damage_type_id, code_used>>
                           ELSE \E row \in found :
                                  /\ damage_type_id' = Some(row.damage_type_id)
                                  /\ code_used' = Some(row.code_used)
                                  /\ pc' = "price_book"
                                  /\ UNCHANGED <<error, conn_open>>

\* ------------------------------------------------- resolve_price_book_id
\* Damage.vActivityCostFull: one row per cost entry of an activity of a damage
\* type, with the damage type's codes and the year of the entry's price book.
vActivityCostFull(store) ==
  { [damage_type_code_en |-> d.code_en, damage_type_code_nl |-> d.code_nl,
     price_year |-> pb.year_label, activity_cost_id |-> ac.activity_cost_id] :
      <<d, dta, ac, pb>> \in
        { t \in store.DamageType \X store.DamageTypeActivity
                  \X store.ActivityCost \X store.PriceBookVersion :
            /\ t[2].damage_type_id = t[1].damage_type_id
            /\ t[3].activity_id = t[2].activity_id
            /\ t[4].price_book_id = t[3].price_book_id } }

\* SELECT MAX(price_year) ... WHERE (CASE language ... END) = damage_code
YearsFor(store, language, damage_code) ==
  { v.price_year : v \in
      { w \in vActivityCostFull(store) :
          (IF language = "en" THEN w.damage_type_code_en
                              ELSE w.damage_type_code_nl) = damage_code } }

MinYear(store, language, damage_code) ==
  LET years == YearsFor(store, language, damage_code) IN
  IF years = {} THEN NULL
  ELSE Some(CHOOSE m \in years : \A y \in years : m <= y)

MaxYear(store, language, damage_code) ==
  LET years == YearsFor(store, language, damage_code) IN
  IF years = {} THEN NULL ELSE Some(SetMax(years))

\* SELECT price_book_id FROM PriceBookVersion WHERE year_label = ?
NearestPriceBooks(store, year) ==
  LET exact == {pb \in store.PriceBookVersion : pb.year_label = year} IN
  IF exact # {} THEN exact
  ELSE {pb \in store.PriceBookVersion :
          \A q \in store.PriceBookVersion : pb.year_label >= q.year_label}

PriceBooksOfYear(store, year) ==
  {pb \in store.PriceBookVersion : pb.year_label = year}

resolve_price_book_id ==
  /\ pc = "price_book"
  /\ Called("resolve_price_book_id")
  /\ UNCHANGED <<storeVars, resolveVars, bandVars, costVars, reportVars>>
  /\ LET max_year == MaxYear(db, args.language, Val(code_used)) IN
     IF args.price_year = NULL /\ max_year = NULL
       THEN /\ Raise("ValueError", "No price book years found for the selected damage type.")
            /\ UNCHANGED priceVars
       ELSE LET year == IF args.price_year = NULL THEN Val(max_year)
                                                  ELSE Val(args.price_year)
                pbs == PriceBooksOfYear(db, year) IN
            IF pbs = {}
              THEN /\ Raise("ValueError", "Price book for year not found.")
                   /\ UNCHANGED priceVars
              ELSE \E pb \in pbs :
                     /\ price_book_id' = Some(pb.price_book_id)
                     /\ price_year' = Some(year)
                     /\ pc' = "severity_band"
                     /\ UNCHANGED <<error, conn_open>>

\* ---------------------------------------------------- pick_severity_band
\* SELECT ... FROM Damage.Unit WHERE symbol = ?
UnitsOrDefault(store, unit_symbol) ==
  LET found == {u \in store.Unit : u.symbol = unit_symbol} IN
  IF found # {} THEN found ELSE {u \in store.Unit : u.conversion_to_base = 1}

UnitsBySymbol(store, unit_symbol) ==
  {u \in store.Unit : u.symbol = unit_symbol}

\* size_in_base = size_value * u.conversion_to_base
to_base_unconverted(size_value, u) == size_value

to_base(size_value, u) == size_value * u.conversion_to_base

\* SeverityBand JOIN Unit ON unit_id WHERE damage_type_id = ?, in the order
\* the store returns the rows (the query has no ORDER BY).
BandRow(store, sb) ==
  LET u == CHOOSE x \in store.Unit : x.unit_id = sb.unit_id IN
  [severity_band_id |-> sb.severity_band_id, band_label |-> sb.band_label,
   range_min |-> sb.range_min, range_max |-> sb.range_max,
   severity_unit |-> u.symbol, conv |-> u.conversion_to_base]

RECURSIVE BandsOf(_, _, _)
BandsOf(store, stored, dt_id) ==
  IF stored = <<>> THEN <<>>
  ELSE LET sb == Head(stored)
           rest == BandsOf(store, Tail(stored), dt_id) IN
       IF sb.damage_type_id = dt_id /\ \E x \in store.Unit : x.unit_id = sb.unit_id
         THEN <<BandRow(store, sb)>> \o rest
         ELSE rest

min_base(b) == b.range_min * b.conv
max_base(b) == b.range_max * b.conv
in_range(b, size) == min_base(b) <= size /\ size <= max_base(b)

\* The in-range penalty alone, without the distance to the midpoint.
score_penalty_only(b, size) == IF in_range(b, size) THEN 0 ELSE Halves(1)

\* score = (0 if in_range else 1) + abs(mid - size_in_base), in halves.
score(b, size) ==
  (IF in_range(b, size) THEN 0 ELSE Halves(1))
    + Abs((min_base(b) + max_base(b)) - Halves(size))

\* The for loop of lines 266-274, with best / best_score as accumulators.
RECURSIVE BandLoopLast(_, _, _, _)
BandLoopLast(bands, size, best, best_score) ==
  IF bands = <<>> THEN best
  ELSE LET b == Head(bands)
           s == score(b, size) IN
       IF best_score = NULL \/ s <= Val(best_score)
         THEN BandLoopLast(Tail(bands), size, Some(b), Some(s))
         ELSE BandLoopLast(Tail(bands), size, best, best_score)

RECURSIVE BandLoop(_, _, _, _)
BandLoop(bands, size, best, best_score) ==
  IF bands = <<>> THEN best
  ELSE LET b == Head(bands)
           s == score(b, size) IN
       IF best_score = NULL \/ s < Val(best_score)
         THEN BandLoop(Tail(bands), size, Some(b), Some(s))
         ELSE BandLoop(Tail(bands), size, best, best_score)

BandInfo(best) ==
  [severity_band_id |-> best.severity_band_id, band_label |-> best.band_label,
   range_min |-> best.range_min, range_max |-> best.range_max,
   severity_unit |-> best.severity_unit]

pick_severity_band ==
  /\ pc = "severity_band"
  /\ Called("pick_severity_band")
  /\ UNCHANGED <<storeVars, resolveVars, priceVars, costVars, reportVars>>
  /\ LET units == UnitsBySymbol(db, args.unit) IN
     IF units = {}
       THEN /\ Raise("ValueError", "Unit not found")
            /\ UNCHANGED bandVars
       ELSE \E u \in units :
         LET base == to_base(args.size, u)
             bands == BandsOf(db, db.SeverityBand, Val(damage_type_id)) IN
         IF bands = <<>>
           THEN /\ Raise("ValueError", "No severity bands configured for this damage type.")
                /\ UNCHANGED bandVars
           ELSE LET best == Val(BandLoop(bands, base, NULL, NULL)) IN
                /\ severity_band_id' = Some(best.severity_band_id)
                /\ band_info' = Some(BandInfo(best))
                /\ size_in_base' = Some(base)
                /\ pc' = "cost_rows"
                /\ UNCHANGED <<error, conn_open>>

\* -------------------------------------------------------- fetch_cost_rows
\* DamageTypeActivity JOIN Activity JOIN ActivityCost (price book, band or
\* NULL band) LEFT JOIN Unit (labor) LEFT JOIN Unit (material).
UnitSymbolOf(store, unit_id) ==
  IF unit_id = NULL \/ ~\E u \in store.Unit : u.unit_id = Val(unit_id) THEN NULL
  ELSE Some((CHOOSE u \in store.Unit : u.unit_id = Val(unit_id)).symbol)

JoinedRow(store, language, dta, a, ac) ==
  [activity_id |-> a.activity_id,
   activity_code |-> IF language = "en" THEN a.code_en ELSE a.code_nl,
   activity_name |-> IF language = "en" THEN a.name_en ELSE a.name_nl,
   sequence_order |-> dta.sequence_order,
   is_required |-> dta.is_required,
   labor_unit_cost |-> ac.labor_unit_cost,
   labor_cost_min |-> ac.labor_cost_min,
   labor_cost_max |-> ac.labor_cost_max,
   material_unit_cost |-> ac.material_unit_cost,
   material_cost_min |-> ac.material_cost_min,
   material_cost_max |-> ac.material_cost_max,
   labor_unit |-> UnitSymbolOf(store, ac.labor_unit_id),
   material_unit |-> UnitSymbolOf(store, ac.material_unit_id),
   activity_cost_id |-> ac.activity_cost_id]

\* The result set; activity_cost_id only keeps two rows of the result apart
\* when all their selected columns agree.
CostJoin(store, dt_id, pb_id, band_id, language) ==
  { JoinedRow(store, language, t[1], t[2], t[3]) :
      t \in { x \in store.DamageTypeActivity \X store.Activity \X store.ActivityCost :
                /\ x[1].damage_type_id = dt_id
                /\ x[2].activity_id = x[1].activity_id
                /\ x[3].activity_id = x[2].activity_id
                /\ x[3].price_book_id = pb_id
                /\ (x[3].severity_band_id = NULL \/ x[3].severity_band_id = Some(band_id)) } }

\* ORDER BY dta.sequence_order, activity_code
RowLeq(r1, r2) ==
  \/ r1.sequence_order < r2.sequence_order
  \/ /\ r1.sequence_order = r2.sequence_order
     /\ CodeRank(r1.activity_code) <= CodeRank(r2.activity_code)

\* Every order of the result set the ORDER BY allows.
Ordered(S) ==
  { s \in [1..Cardinality(S) -> S] :
      /\ \A i, j \in 1..Cardinality(S) : i # j => s[i] # s[j]
      /\ \A i, j \in 1..Cardinality(S) : i < j => RowLeq(s[i], s[j]) }

\* main, line 375: if not rows
not_rows_never(rs) == FALSE

not_rows(rs) == Len(rs) = 0

fetch_cost_rows ==
  /\ pc = "cost_rows"
  /\ Called("fetch_cost_rows")
  /\ UNCHANGED <<storeVars, resolveVars, priceVars, bandVars, estimates, reportVars>>
  /\ \E rs \in Ordered(CostJoin(db, Val(damage_type_id), Val(price_book_id),
                                Val(severity_band_id), args.language)) :
       IF not_rows(rs)
         THEN /\ rows' = Some(rs)
              /\ Raise("ValueError", "No costs found for the selected type/year/severity.")
         ELSE /\ rows' = Some(rs)
              /\ pc' = "estimate"
              /\ UNCHANGED <<error, conn_open>>

\* --------------------------------------------------------- estimate_costs
\* Estimates are in halves (see the head of the module).
labor_est_truthy(r, size) ==
  IF r.labor_unit_cost # NULL /\ Val(r.labor_unit_cost) # 0
    THEN Some(Halves(Val(r.labor_unit_cost) * size))
  ELSE IF r.labor_cost_min # NULL /\ r.labor_cost_max # NULL
    THEN Some(Val(r.labor_cost_min) + Val(r.labor_cost_max))
  ELSE IF r.labor_cost_min # NULL THEN Some(Halves(Val(r.labor_cost_min)))
  ELSE NULL

labor_est(r, size) ==
  IF r.labor_unit_cost # NULL THEN Some(Halves(Val(r.labor_unit_cost) * size))
  ELSE IF r.labor_cost_min # NULL /\ r.labor_cost_max # NULL
    THEN Some(Val(r.labor_cost_min) + Val(r.labor_cost_max))
  ELSE IF r.labor_cost_min # NULL THEN Some(Halves(Val(r.labor_cost_min)))
  ELSE NULL

material_est(r, size) ==
  IF r.material_unit_cost # NULL THEN Some(Halves(Val(r.material_unit_cost) * size))
  ELSE IF r.material_cost_min # NULL /\ r.material_cost_max # NULL
    THEN Some(Val(r.material_cost_min) + Val(r.material_cost_max))
  ELSE IF r.material_cost_min # NULL THEN Some(Halves(Val(r.material_cost_min)))
  ELSE NULL

EstimateLine(r, size) ==
  [activity_code |-> r.activity_code, activity_name |-> r.activity_name,
   is_required |-> r.is_required # 0, sequence_order |-> r.sequence_order,
   labor_unit |-> r.labor_unit, material_unit |-> r.material_unit,
   labor_cost_min |-> r.labor_cost_min, labor_cost_max |-> r.labor_cost_max,
   material_cost_min |-> r.material_cost_min, material_cost_max |-> r.material_cost_max,
   labor_unit_cost |-> r.labor_unit_cost, material_unit_cost |-> r.material_unit_cost,
   estimated_labor |-> labor_est(r, size),
   estimated_material |-> material_est(r, size)]

estimate_costs ==
  /\ pc = "estimate"
  /\ Called("estimate_costs")
  /\ estimates' = Some([i \in 1..Len(Val(rows)) |-> EstimateLine(Val(rows)[i], Val(size_in_base))])
  /\ pc' = "report"
  /\ UNCHANGED <<storeVars, resolveVars, priceVars, bandVars, rows, reportVars,
                 error, conn_open>>

\* ------------------------------------------------- main: totals and report
\* e["estimated_labor"] or 0
OrZero(o) == IF o = NULL \/ Val(o) = 0 THEN 0 ELSE Val(o)

TotalMaterialOfLabor(es) == SumSeq([i \in 1..Len(es) |-> OrZero(es[i].estimated_labor)])

TotalLabor(es) == SumSeq([i \in 1..Len(es) |-> OrZero(es[i].estimated_labor)])
TotalMaterial(es) == SumSeq([i \in 1..Len(es) |-> OrZero(es[i].estimated_material)])

\* e['labor_unit'] or ''
OrEmpty(o) == IF o = NULL THEN "" ELSE Val(o)

Header ==
  << [kind |-> "damage_type", code |-> Val(code_used)],
     [kind |-> "language", language |-> args.language],
     [kind |-> "price_year", year |-> Val(price_year)],
     [kind |-> "severity_band", band_label |-> Val(band_info).band_label,
      range_min |-> Val(band_info).range_min, range_max |-> Val(band_info).range_max,
      severity_unit |-> Val(band_info).severity_unit],
     [kind |-> "input_size", size |-> args.size, unit |-> args.unit,
      base_adjusted |-> Val(size_in_base)],
     [kind |-> "activities"] >>

ActivityLine(e) ==
  [kind |-> "activity", activity_code |-> e.activity_code,
   activity_name |-> e.activity_name,
   labor |-> e.estimated_labor, material |-> e.estimated_material,
   labor_unit_cost |-> e.labor_unit_cost, labor_unit |-> OrEmpty(e.labor_unit),
   material_unit_cost |-> e.material_unit_cost,
   material_unit |-> OrEmpty(e.material_unit)]

TotalsLine(tl, tm) ==
  [kind |-> "totals", labor |-> tl, material |-> tm, grand_total |-> tl + tm]

report ==
  /\ pc = "report"
  /\ LET es == Val(estimates)
         tl == TotalLabor(es)
         tm == TotalMaterial(es) IN
     /\ total_labor' = Some(tl)
     /\ total_material' = Some(tm)
     /\ out' = Header \o [i \in 1..Len(es) |-> ActivityLine(es[i])]
                      \o <<TotalsLine(tl, tm)>>
  /\ pc' = "done"
  /\ conn_open' = FALSE
  /\ UNCHANGED <<storeVars, resolveVars, priceVars, bandVars, costVars, error, trace>>

\* ------------------------------------------------------------ the machine
InitWith(stores, argset, envs) ==
  /\ db \in stores
  /\ args \in argset
  /\ env \in envs
  /\ pc = "resolve"
  /\ damage_type_id = NULL /\ code_used = NULL
  /\ price_book_id = NULL /\ price_year = NULL
  /\ severity_band_id = NULL /\ band_info = NULL /\ size_in_base = NULL
  /\ rows = NULL /\ estimates = NULL
  /\ total_labor = NULL /\ total_material = NULL
  /\ out = <<>>
  /\ error = NULL
  /\ trace = <<>>
  /\ choices = {}
  /\ code_guess = NULL
  /\ classifier_calls = 0
  /\ conn_open = TRUE

Years == {2021, 2022, 2023}
Envs == [openai_installed : BOOLEAN, api_key : BOOLEAN]

MainStores ==
  { [SampleStore EXCEPT !.SeverityBand = bs, !.ActivityCost = acs] :
      bs \in {SampleBands, <<>>}, acs \in {SampleActivityCost, {}} }

MainArgs ==
  [language : Languages,
   damage_code : {NULL, Some("WATER"), Some("BRAND"), Some("NONE")},
   description : {NULL, Some("leak in the pipe")},
   size : 0..MaxSize,
   unit : UnitSymbols,
   price_year : Opt(Years)]

Init == InitWith(MainStores, MainArgs, Envs)

Next ==
  \/ fetch_damage_type_code
  \/ resolve_price_book_id
  \/ pick_severity_band
  \/ fetch_cost_rows
  \/ estimate_costs
  \/ report

Spec == Init /\ [][Next]_vars

\* --- the resolver's inputs: every DamageType table of two types whose codes
\* are unique within each language column, every code / description argument.
DamageTypeTables ==
  { { [damage_type_id |-> 1, code_en |-> e1, code_nl |-> n1,
       name_en |-> "Water damage", name_nl |-> "Waterschade"],
      [damage_type_id |-> 2, code_en |-> e2, code_nl |-> n2,
       name_en |-> "Fire damage", name_nl |-> "Brandschade"] } :
      <<e1, n1, e2, n2>> \in
        {c \in Codes \X Codes \X Codes \X Codes : c[1] # c[3] /\ c[2] # c[4]} }

ResolverStores == { [SampleStore EXCEPT !.DamageType = t] : t \in DamageTypeTables }

ResolverArgs ==
  { [SampleArgs EXCEPT !.language = l, !.damage_code = c, !.description = d] :
      l \in Languages, c \in Opt(Codes \cup {"", "NONE"}),
      d \in Opt({"", "leak in the pipe"}) }

InitResolver == InitWith(ResolverStores, ResolverArgs, Envs)
SpecResolver == InitResolver /\ [][Next]_vars

\* --- the price book selector's inputs: every set of price books over Years,
\* every set of cost entries of the two damage types in those books, every
\* DamageType table of the resolver's inputs.
YearOfBook == [b \in 1..3 |-> 2020 + b]

EntryRow(act, pb) ==
  CostRow(10 * act + pb, act, pb, NULL, Some(1), NULL, NULL, Some(1), NULL, NULL)

PriceBookStores ==
  { [SampleStore EXCEPT
       !.DamageType = types,
       !.PriceBookVersion = {[price_book_id |-> b, year_label |-> YearOfBook[b]] : b \in books},
       !.ActivityCost = {EntryRow(1, b) : b \in own} \cup {EntryRow(3, b) : b \in other}] :
      types \in DamageTypeTables,
      <<books, own, other>> \in
        { t \in (SUBSET (1..3)) \X (SUBSET (1..3)) \X (SUBSET (1..3)) :
            t[2] \subseteq t[1] /\ t[3] \subseteq t[1] } }

PriceBookArgs ==
  { [SampleArgs EXCEPT !.language = l, !.damage_code = c, !.price_year = y] :
      l \in Languages, c \in {Some("WATER"), Some("FIRE")}, y \in Opt(Years) }

InitPriceBook == InitWith(PriceBookStores, PriceBookArgs, {SampleEnv})
SpecPriceBook == InitPriceBook /\ [][Next]_vars

\* --- the band matcher's inputs: every list of at most MaxBands bands of the
\* damage type (in each store order), every size and unit.
BandLabels == <<"small", "medium", "large", "huge">>

BandShapes(top, unit_ids) ==
  { [range_min |-> lo, range_max |-> hi, unit_id |-> u] :
      <<lo, hi, u>> \in
        { t \in (0..top) \X (0..top) \X unit_ids : t[1] <= t[2] } }

BandLists(shapes) ==
  UNION { { [i \in 1..n |->
              [severity_band_id |-> i, damage_type_id |-> 1,
               band_label |-> BandLabels[i],
               range_min |-> f[i].range_min, range_max |-> f[i].range_max,
               unit_id |-> f[i].unit_id]] : f \in [1..n -> shapes] } :
          n \in 0..MaxBands }

BandStores(top, unit_ids) ==
  { [SampleStore EXCEPT !.SeverityBand = bs] :
      bs \in BandLists(BandShapes(top, unit_ids)) }

BandArgs ==
  { [SampleArgs EXCEPT !.size = v, !.unit = u] : v \in 0..MaxSize, u \in UnitSymbols }

InitBand == InitWith(BandStores(MaxRange, {1, 2}), BandArgs, {SampleEnv})
SpecBand == InitBand /\ [][Next]_vars

\* --- the boundary scenario: "small" = [0, 5] and "large" = [5, 100] in the
\* base unit, returned by the store in either order.
BoundaryBands ==
  << [severity_band_id |-> 1, damage_type_id |-> 1, band_label |-> "small",
      range_min |-> 0, range_max |-> 5, unit_id |-> 1],
     [severity_band_id |-> 2, damage_type_id |-> 1, band_label |-> "large",
      range_min |-> 5, range_max |-> 100, unit_id |-> 1] >>

BoundaryStores ==
  { [SampleStore EXCEPT !.SeverityBand = bs] :
      bs \in { BoundaryBands, <<BoundaryBands[2], BoundaryBands[1]>> } }

BoundaryArgs ==
  { [SampleArgs EXCEPT !.language = l, !.size = v, !.unit = u, !.price_year = y] :
      l \in Languages, v \in 0..(MaxSize + WideRange), u \in UnitSymbols,
      y \in Opt(Years) }

InitBoundary == InitWith(BoundaryStores, BoundaryArgs, {SampleEnv})
SpecBoundary == InitBoundary /\ [][Next]_vars

\* --- the same with wider ranges, all in the base unit.
InitBandWide == InitWith(BandStores(WideRange, {1}), BandArgs, {SampleEnv})
SpecBandWide == InitBandWide /\ [][Next]_vars

\* --- the cost calculator's inputs: one cost entry of activity 1 with every
\* combination of its six cost fields, beside any of two further entries (a
\* band-specific entry of the same activity, an entry without any cost).
OptCost == Opt(0..MaxCost)

FurtherEntries ==
  { CostRow(2, 1, 2, Some(1), Some(1), NULL, NULL, NULL, NULL, Some(1)),
    CostRow(3, 2, 2, NULL, NULL, NULL, NULL, NULL, NULL, NULL) }

CostStores(costs) ==
  { [SampleStore EXCEPT
       !.ActivityCost =
          {CostRow(1, 1, 2, NULL, c[1], c[2], c[3], c[4], c[5], c[6])} \cup more] :
      c \in costs \X costs \X costs \X costs \X costs \X costs,
      more \in SUBSET FurtherEntries }

CostArgs == { [SampleArgs EXCEPT !.size = v] : v \in 0..MaxSize }

InitCost == InitWith(CostStores(OptCost), CostArgs, {SampleEnv})
SpecCost == InitCost /\ [][Next]_vars

\* ================================================================ claims
StagesCalled == Len(trace)

\* The bands of the resolved damage type as pick_severity_band reads them.
TypeBands == BandsOf(db, db.SeverityBand, Val(damage_type_id))

ChosenBands ==
  { i \in 1..Len(TypeBands) : TypeBands[i].severity_band_id = Val(severity_band_id) }

\* C1: whenever some band of the damage type contains size_in_base
\* (min_base <= size_in_base <= max_base), the band pick_severity_band
\* returns is a band that contains size_in_base.
C1_InRangeBandWins ==
  severity_band_id # NULL =>
    ( (\E i \in 1..Len(TypeBands) : in_range(TypeBands[i], Val(size_in_base)))
        => \E i \in ChosenBands : in_range(TypeBands[i], Val(size_in_base)) )

\* The cost entries fetch_cost_rows may use: of an activity of the resolved
\* damage type, in the selected price book, for the selected band or no band.
Applicable(dta, ac) ==
  /\ dta.damage_type_id = Val(damage_type_id)
  /\ ac.activity_id = dta.activity_id
  /\ \E a \in db.Activity : a.activity_id = dta.activity_id
  /\ ac.price_book_id = Val(price_book_id)
  /\ (ac.severity_band_id = NULL \/ ac.severity_band_id = severity_band_id)

ActivitiesWithCost ==
  { a \in db.Activity :
      \E dta \in db.DamageTypeActivity, ac \in db.ActivityCost :
        dta.activity_id = a.activity_id /\ Applicable(dta, ac) }

\* C2: the estimate holds exactly one line per activity of the damage type
\* that has an applicable cost entry, also when the activity has both a
\* band-specific and a band-agnostic entry in the price book.
C2_OneLinePerActivity ==
  estimates # NULL =>
    /\ Len(Val(estimates)) = Cardinality(ActivitiesWithCost)
    /\ \A a \in ActivitiesWithCost :
         Cardinality({ i \in 1..Len(Val(estimates)) :
                         Val(estimates)[i].activity_code
                           = (IF args.language = "en" THEN a.code_en ELSE a.code_nl) }) = 1

\* A run in which a band-specific and a band-agnostic entry of one activity
\* are both applicable.
C2_BothEntriesApplicable ==
  /\ estimates # NULL
  /\ \E dta \in db.DamageTypeActivity, ac1, ac2 \in db.ActivityCost :
       /\ Applicable(dta, ac1) /\ Applicable(dta, ac2)
       /\ ac1.severity_band_id = NULL /\ ac2.severity_band_id # NULL

\* The stage that raises each error of the run.
ErrorStage(msg) ==
  CASE msg \in {"Damage type code not found",
                "Either --damage-code or --description must be provided.",
                "openai package not installed", "OPENAI_API_KEY is required",
                "list index out of range", "Model returned an unknown code"} -> 1
    [] msg \in {"No price book years found for the selected damage type.",
                "Price book for year not found."} -> 2
    [] msg \in {"Unit not found",
                "No severity bands configured for this damage type."} -> 3
    [] msg = "No costs found for the selected type/year/severity." -> 4

\* The results of stage k and of every later stage are still unset.
UnsetFrom(k) ==
  /\ k <= 1 => damage_type_id = NULL /\ code_used = NULL
  /\ k <= 2 => price_book_id = NULL /\ price_year = NULL
  /\ k <= 3 => severity_band_id = NULL /\ band_info = NULL /\ size_in_base = NULL
  /\ k <= 4 => estimates = NULL
  /\ total_labor = NULL /\ total_material = NULL

UnitKnown == \E u \in db.Unit : u.symbol = args.unit
YearKnown == \E pb \in db.PriceBookVersion : Some(pb.year_label) = args.price_year
CodeKnown ==
  \E d \in db.DamageType :
    Some(d.code_en) = args.damage_code \/ Some(d.code_nl) = args.damage_code

\* C3: the stages are called in the order resolver, price book selector,
\* band matcher, cost rows, estimates; a run fails exactly with the error of
\* the last stage called, with that stage's and all later results unset and
\* nothing printed; something is printed only when all stages have run without
\* error, and then the whole report; an unknown code, year, unit or a damage
\* type without bands never gets a substitute.
C3_FailFast ==
  /\ StagesCalled <= Len(StageOrder)
  /\ \A i \in 1..StagesCalled : trace[i] = StageOrder[i]
  /\ (error # NULL) <=> (pc = "failed")
  /\ pc = "failed" =>
       /\ StagesCalled = ErrorStage(Val(error).msg)
       /\ UnsetFrom(StagesCalled)
       /\ out = <<>>
  /\ out # <<>> =>
       /\ pc = "done" /\ error = NULL /\ trace = StageOrder
       /\ out[1].kind = "damage_type" /\ out[Len(out)].kind = "totals"
  /\ (Truthy(args.damage_code) /\ ~CodeKnown) => damage_type_id = NULL /\ out = <<>>
  /\ (args.price_year # NULL /\ ~YearKnown) => price_book_id = NULL /\ out = <<>>
  /\ ~UnitKnown => severity_band_id = NULL /\ out = <<>>
  /\ (damage_type_id # NULL /\ TypeBands = <<>>) => severity_band_id = NULL /\ out = <<>>

\* A run that fails in the band matcher on an unknown unit, after the first
\* two stages have succeeded.
C3_FailedAtUnit ==
  /\ pc = "failed" /\ StagesCalled = 3 /\ ~UnitKnown
  /\ damage_type_id # NULL /\ price_book_id # NULL

\* The fallback rule of one cost category as the claim states it.
Expected(unit_cost, cost_min, cost_max, size) ==
  CASE unit_cost # NULL -> Some(Halves(Val(unit_cost) * size))
    [] unit_cost = NULL /\ cost_min # NULL /\ cost_max # NULL
         -> Some(Val(cost_min) + Val(cost_max))
    [] unit_cost = NULL /\ cost_min # NULL /\ cost_max = NULL
         -> Some(Halves(Val(cost_min)))
    [] OTHER -> NULL

ExampleRow ==
  [labor_unit_cost |-> Some(10), labor_cost_min |-> NULL, labor_cost_max |-> NULL,
   material_unit_cost |-> NULL, material_cost_min |-> Some(5),
   material_cost_max |-> Some(15)]

\* C4: every line's labor estimate is unit_cost * size_in_base if the labor
\* unit cost is present (0 included), else (min + max) / 2 if both are
\* present, else min if present, else null, a function of the labor fields
\* and the size alone; likewise for material; unit cost 10 at size 3 gives 30
\* and min 5 / max 15 gives 10.
C4_CostFallback ==
  /\ labor_est(ExampleRow, 3) = Some(Halves(30))
  /\ material_est(ExampleRow, 3) = Some(Halves(10))
  /\ estimates # NULL =>
       \A i \in 1..Len(Val(estimates)) :
         LET r == Val(rows)[i]
             e == Val(estimates)[i] IN
         /\ e.estimated_labor =
              Expected(r.labor_unit_cost, r.labor_cost_min, r.labor_cost_max,
                       Val(size_in_base))
         /\ e.estimated_material =
              Expected(r.material_unit_cost, r.material_cost_min, r.material_cost_max,
                       Val(size_in_base))

\* A line with a labor unit cost of 0 beside a labor minimum, and with only a
\* material maximum.
C4_ZeroUnitCostAndOnlyMax ==
  /\ estimates # NULL
  /\ Val(size_in_base) > 0
  /\ \E i \in 1..Len(Val(estimates)) :
       LET e == Val(estimates)[i] IN
       /\ e.labor_unit_cost = Some(0) /\ e.labor_cost_min = Some(1)
       /\ e.estimated_labor = Some(0)
       /\ e.material_unit_cost = NULL /\ e.material_cost_min = NULL
       /\ e.material_cost_max = Some(1) /\ e.estimated_material = NULL

\* The years in which the resolved damage type (by id) has a cost entry.
OwnYears ==
  { pb.year_label : pb \in
      { q \in db.PriceBookVersion :
          \E dta \in db.DamageTypeActivity, ac \in db.ActivityCost :
            /\ dta.damage_type_id = Val(damage_type_id)
            /\ ac.activity_id = dta.activity_id
            /\ ac.price_book_id = q.price_book_id } }

\* C5: without --price-year, once the selector has run: if the resolved
\* damage type has no cost entry in any year the run has failed there with the
\* no-years error; otherwise the selected year is the largest year with a cost
\* entry of that damage type and the price book is the one of that year.
C5_LatestYear ==
  (args.price_year = NULL /\ StagesCalled >= 2) =>
    IF OwnYears = {}
      THEN /\ pc = "failed" /\ StagesCalled = 2
           /\ Val(error).msg = "No price book years found for the selected damage type."
           /\ price_book_id = NULL /\ price_year = NULL
      ELSE /\ price_year # NULL /\ price_book_id # NULL
           /\ Val(price_year) \in OwnYears
           /\ \A y \in OwnYears : y <= Val(price_year)
           /\ \E pb \in db.PriceBookVersion :
                pb.price_book_id = Val(price_book_id) /\ pb.year_label = Val(price_year)

\* The damage type has entries up to 2022, another damage type has one in
\* 2023, and 2022 is selected.
C5_LaterYearOfOtherType ==
  /\ args.price_year = NULL /\ price_year = Some(2022)
  /\ OwnYears = {2021, 2022}
  /\ \E ac \in db.ActivityCost, pb \in db.PriceBookVersion :
       ac.price_book_id = pb.price_book_id /\ pb.year_label = 2023

\* C6: with --price-year, once the selector has run: if a price book with
\* exactly that year label exists, it is the one returned and the year
\* reported is the requested year; otherwise the run has failed there with the
\* not-found error and no price book or year is set.
C6_ExplicitYear ==
  (args.price_year # NULL /\ StagesCalled >= 2) =>
    IF YearKnown
      THEN /\ price_year = args.price_year
           /\ price_book_id # NULL
           /\ \E pb \in db.PriceBookVersion :
                pb.price_book_id = Val(price_book_id) /\ Some(pb.year_label) = args.price_year
      ELSE /\ pc = "failed" /\ StagesCalled = 2
           /\ Val(error).msg = "Price book for year not found."
           /\ price_book_id = NULL /\ price_year = NULL

\* The requested year 2022 has no price book while 2021 and 2023 have.
C6_MissingYearBetween ==
  /\ args.price_year = Some(2022) /\ pc = "failed" /\ StagesCalled = 2
  /\ {pb.year_label : pb \in db.PriceBookVersion} = {2021, 2023}

NoApplicableEntry ==
  ~\E dta \in db.DamageTypeActivity, ac \in db.ActivityCost : Applicable(dta, ac)

IsActivity(line) == line.kind = "activity"

\* C7: once the cost rows have been fetched, if no cost entry is applicable
\* the run has failed with the no-costs error and nothing is printed or
\* totalled; a finished report holds at least one activity line.
C7_EmptyResultFails ==
  /\ (StagesCalled >= 4 /\ NoApplicableEntry) =>
       /\ pc = "failed" /\ StagesCalled = 4
       /\ Val(error).msg = "No costs found for the selected type/year/severity."
       /\ estimates = NULL /\ total_labor = NULL /\ total_material = NULL
       /\ out = <<>>
  /\ pc = "done" =>
       /\ Len(Val(estimates)) >= 1
       /\ Len(SelectSeq(out, IsActivity)) >= 1

\* The store has cost entries, but none for the selected price book.
C7_NoRowsForYear ==
  /\ pc = "failed" /\ rows = Some(<<>>) /\ db.ActivityCost # {}

\* The sum of the values present in a sequence of optional values.
RECURSIVE SumPresent(_)
SumPresent(s) ==
  IF s = <<>> THEN 0
  ELSE (IF Head(s) = NULL THEN 0 ELSE Val(Head(s))) + SumPresent(Tail(s))

\* C8: in a finished report total_labor is the sum of the lines' labor
\* estimates that are not null, total_material likewise, the totals line
\* shows them and their sum as grand total, and every activity line shows its
\* estimates as they are, null included.
C8_Totals ==
  pc = "done" =>
    LET es == Val(estimates)
        lines == SelectSeq(out, IsActivity)
        tot == out[Len(out)] IN
    /\ total_labor = Some(SumPresent([i \in 1..Len(es) |-> es[i].estimated_labor]))
    /\ total_material = Some(SumPresent([i \in 1..Len(es) |-> es[i].estimated_material]))
    /\ tot.kind = "totals"
    /\ tot.labor = Val(total_labor) /\ tot.material = Val(total_material)
    /\ tot.grand_total = Val(total_labor) + Val(total_material)
    /\ Len(lines) = Len(es)
    /\ \A i \in 1..Len(es) :
         /\ lines[i].labor = es[i].estimated_labor
         /\ lines[i].material = es[i].estimated_material

\* A report of several lines, one with a null labor estimate that is printed
\* as null, and totals that differ.
C8_NullLineInReport ==
  /\ pc = "done" /\ Len(Val(estimates)) >= 2
  /\ \E i \in 1..Len(out) : out[i].kind = "activity" /\ out[i].labor = NULL
  /\ Val(total_labor) > 0 /\ Val(total_labor) # Val(total_material)

\* C9: with --damage-code, once the resolver has run: the classifier was not
\* called and no candidates were built; if some damage type has the code in
\* its English or Dutch column the result is such a type's id with its code
\* in the requested language, otherwise the run has failed with the
\* code-not-found error.
C9_ExplicitCode ==
  (Truthy(args.damage_code) /\ StagesCalled >= 1) =>
    /\ classifier_calls = 0 /\ choices = {} /\ code_guess = NULL
    /\ IF CodeKnown
         THEN /\ damage_type_id # NULL
              /\ \E d \in db.DamageType :
                   /\ Some(d.code_en) = args.damage_code \/ Some(d.code_nl) = args.damage_code
                   /\ damage_type_id = Some(d.damage_type_id)
                   /\ code_used = Some(IF args.language = "en" THEN d.code_en ELSE d.code_nl)
         ELSE /\ pc = "failed" /\ StagesCalled = 1
              /\ Val(error).msg = "Damage type code not found"
              /\ damage_type_id = NULL /\ code_used = NULL

\* A code found only in the Dutch column, English requested, a description
\* given as well and the classifier configured.
C9_DutchCodeWithDescription ==
  /\ Truthy(args.damage_code) /\ Truthy(args.description)
  /\ env.openai_installed /\ env.api_key
  /\ args.language = "en"
  /\ damage_type_id # NULL /\ args.damage_code # code_used
  /\ \A d \in db.DamageType : Some(d.code_en) # args.damage_code

\* C10: on the description path, a classifier answer that is not the code of
\* one of the candidates presented to it (their codes in the requested
\* language) selects no damage type: the run fails.
C10_OnlyPresentedCodes ==
  (code_guess # NULL /\ Val(code_guess) \notin {c.code : c \in choices}) =>
    /\ damage_type_id = NULL
    /\ pc = "failed"

\* An argument that is absent or the empty string.
Missing(o) == o = NULL \/ o = Some("")

\* C11: with neither a damage code nor a description (each absent or empty),
\* once the resolver has run the run has failed with the input error, no
\* candidates were built and the classifier was not called, whatever the
\* classifier's configuration.
C11_MissingInput ==
  (Missing(args.damage_code) /\ Missing(args.description) /\ StagesCalled >= 1) =>
    /\ pc = "failed" /\ StagesCalled = 1
    /\ Val(error).type = "ValueError"
    /\ Val(error).msg = "Either --damage-code or --description must be provided."
    /\ choices = {} /\ code_guess = NULL /\ classifier_calls = 0
    /\ damage_type_id = NULL /\ code_used = NULL

\* An empty code and no description fail with the classifier configured.
C11_EmptyCodeClassifierReady ==
  /\ args.damage_code = Some("") /\ args.description = NULL
  /\ env.openai_installed /\ env.api_key
  /\ pc = "failed"

\* An empty description fails the same way with the classifier not installed.
C11_EmptyDescriptionNoClassifier ==
  /\ args.damage_code = NULL /\ args.description = Some("")
  /\ ~env.openai_installed
  /\ pc = "failed"

\* Every order in which the store may return the rows of a stored sequence.
Reorderings(stored) ==
  { [i \in 1..Len(stored) |-> stored[p[i]]] :
      p \in { f \in [1..Len(stored) -> 1..Len(stored)] :
                \A i, j \in 1..Len(stored) : i # j => f[i] # f[j] } }

\* The band a run with the same inputs picks when the store returns the
\* severity bands in the order given.
BandPickedIn(stored) ==
  Val(BandLoop(BandsOf(db, stored, Val(damage_type_id)), Val(size_in_base),
               NULL, NULL)).severity_band_id

\* C12: a second run with the same inputs on the same store contents gives
\* the same result; in particular it picks the same severity band when the
\* store returns the bands in another order.
C12_SameBandInAnyOrder ==
  severity_band_id # NULL =>
    \A stored \in Reorderings(db.SeverityBand) :
      BandPickedIn(stored) = Val(severity_band_id)

\* The band of the resolved damage type that was returned, as stored.
StoredBands ==
  SelectSeq(db.SeverityBand, LAMBDA sb : sb.damage_type_id = Val(damage_type_id))

FactorOf(unit_id) == (CHOOSE u \in db.Unit : u.unit_id = unit_id).conversion_to_base

\* Twice the claim's score of a stored band for a size in base units.
ClaimScore(sb, size) ==
  LET lo == sb.range_min * FactorOf(sb.unit_id)
      hi == sb.range_max * FactorOf(sb.unit_id) IN
  (IF lo <= size /\ size <= hi THEN 0 ELSE 2)
    + (IF 2 * size >= lo + hi THEN 2 * size - (lo + hi) ELSE (lo + hi) - 2 * size)

\* C13: once the band matcher has run: for an unknown unit symbol the run has
\* failed there with the unit-not-found error and no band or size is set; for
\* a known unit with factor c, the base-adjusted size (when the matcher
\* returned) is size * c, the band returned has the least score for size * c,
\* and every estimate from a unit cost is unit_cost * size * c.
C13_UnitConversion ==
  StagesCalled >= 3 =>
    IF ~UnitKnown
      THEN /\ pc = "failed" /\ StagesCalled = 3
           /\ Val(error).msg = "Unit not found"
           /\ severity_band_id = NULL /\ band_info = NULL /\ size_in_base = NULL
      ELSE LET c == (CHOOSE u \in db.Unit : u.symbol = args.unit).conversion_to_base IN
           /\ severity_band_id # NULL =>
                /\ size_in_base = Some(args.size * c)
                /\ \E i \in 1..Len(StoredBands) :
                     /\ StoredBands[i].severity_band_id = Val(severity_band_id)
                     /\ \A j \in 1..Len(StoredBands) :
                          ClaimScore(StoredBands[i], args.size * c)
                            <= ClaimScore(StoredBands[j], args.size * c)
           /\ estimates # NULL =>
                \A i \in 1..Len(Val(estimates)) :
                  LET e == Val(estimates)[i] IN
                  /\ e.labor_unit_cost # NULL =>
                       e.estimated_labor = Some(2 * (Val(e.labor_unit_cost) * (args.size * c)))
                  /\ e.material_unit_cost # NULL =>
                       e.estimated_material = Some(2 * (Val(e.material_unit_cost) * (args.size * c)))

\* A size of 3 tiles (factor 2) is matched and estimated as 6 base units.
C13_TilesConverted ==
  /\ pc = "done" /\ args.unit = "tile" /\ args.size = 3
  /\ size_in_base = Some(6)
  /\ \E i \in 1..Len(Val(estimates)) :
       Val(estimates)[i].labor_unit_cost = Some(1)
         /\ Val(estimates)[i].estimated_labor = Some(12)

\* The positions in StoredBands of the band that was returned.
Returned ==
  { i \in 1..Len(StoredBands) :
      StoredBands[i].severity_band_id = Val(severity_band_id) }

\* C14: once the band matcher has run with a known unit and at least one band
\* of the damage type, it has not failed and has returned a band; that band
\* has the least score, each band scored on its range converted with its own
\* unit's factor as (0 if the size is within the range, bounds included, else
\* 1) + |size - (min + max) / 2|, and no band earlier in the store's order has
\* the same score; the band info carries its label, range and unit as stored.
C14_LeastScoreFirstInOrder ==
  (StagesCalled >= 3 /\ UnitKnown /\ Len(StoredBands) >= 1) =>
    /\ ~(pc = "failed" /\ StagesCalled = 3)
    /\ severity_band_id # NULL /\ size_in_base # NULL
    /\ \E i \in Returned :
         LET least == ClaimScore(StoredBands[i], Val(size_in_base)) IN
         /\ \A j \in 1..Len(StoredBands) :
              ClaimScore(StoredBands[j], Val(size_in_base)) >= least
         /\ \A j \in 1..(i - 1) :
              ClaimScore(StoredBands[j], Val(size_in_base)) > least
         /\ Val(band_info).band_label = StoredBands[i].band_label
         /\ Val(band_info).range_min = StoredBands[i].range_min
         /\ Val(band_info).range_max = StoredBands[i].range_max
         /\ \E u \in db.Unit :
              u.unit_id = StoredBands[i].unit_id /\ Val(band_info).severity_unit = u.symbol

\* Two bands in different units with equal scores, neither containing the
\* size: the first in store order is returned.
C14_TieAcrossUnits ==
  /\ severity_band_id # NULL /\ Len(StoredBands) = 2
  /\ StoredBands[1].unit_id # StoredBands[2].unit_id
  /\ StoredBands[1].range_max * FactorOf(StoredBands[1].unit_id)
       # StoredBands[2].range_max * FactorOf(StoredBands[2].unit_id)
  /\ ClaimScore(StoredBands[1], Val(size_in_base))
       = ClaimScore(StoredBands[2], Val(size_in_base))
  /\ ClaimScore(StoredBands[1], Val(size_in_base)) > 2
  /\ Val(severity_band_id) = StoredBands[1].severity_band_id

\* The band of the given label among the stored bands of the damage type.
BandLabelled(label) ==
  StoredBands[CHOOSE i \in 1..Len(StoredBands) : StoredBands[i].band_label = label]
Contains(sb, size) ==
  /\ sb.range_min * FactorOf(sb.unit_id) <= size
  /\ size <= sb.range_max * FactorOf(sb.unit_id)
AtBoundary == severity_band_id # NULL /\ size_in_base = Some(5)

\* C15 as stated: with "small" = [0, 5] and "large" = [5, 100] and size 5, the
\* size is in range for both bands, the two scores are equal, and the band
\* returned is the first of the two in the store's return order.
C15_FirstInOrderAtBoundary ==
  AtBoundary =>
    /\ Contains(BandLabelled("small"), 5) /\ Contains(BandLabelled("large"), 5)
    /\ ClaimScore(BandLabelled("small"), 5) = ClaimScore(BandLabelled("large"), 5)
    /\ Val(band_info).band_label = StoredBands[1].band_label

\* C15: with "small" = [0, 5] and "large" = [5, 100] and size 5, the size is
\* in range for both bands, the scores are 2.5 for "small" and 47.5 for
\* "large" (the distances to the midpoints 2.5 and 52.5), and "small" is
\* returned whatever the store's return order.
C15_SmallAtBoundary ==
  AtBoundary =>
    /\ Contains(BandLabelled("small"), 5) /\ Contains(BandLabelled("large"), 5)
    /\ ClaimScore(BandLabelled("small"), 5) = 5
    /\ ClaimScore(BandLabelled("large"), 5) = 95
    /\ Val(band_info).band_label = "small"
    /\ Val(severity_band_id) = BandLabelled("small").severity_band_id

\* The store returns "large" first and "small" is returned for size 5.
C15_LargeStoredFirst ==
  /\ AtBoundary /\ pc = "done"
  /\ db.SeverityBand[1].band_label = "large"
  /\ Val(band_info).band_label = "small"

====
